---- MODULE Spec2Model ----
(***************************************************************************)
(* A model of two parts of the repository.                                 *)
(*                                                                         *)
(*  1. CasOC::LegendreGaussRadau (CasOCLegendreGaussRadau.cpp): the        *)
(*     quadrature coefficients, the mesh indicator, the defect residuals   *)
(*     and the interpolation residuals of the Legendre-Gauss-Radau         *)
(*     transcription.                                                      *)
(*  2. OpenSim::Output<T> (ComponentOutput.h): getValue and the copy       *)
(*     assignment call chain.                                              *)
(*                                                                         *)
(* Numbers.  The code computes with doubles and symbolic expressions; the  *)
(* model computes exactly, with integers that are numerators over fixed    *)
(* denominators:                                                           *)
(*    mesh[i]                     numerator over MeshDen   (mesh in [0,1]) *)
(*    m_legendreRoots[k]          numerator over TauDen    (root in (0,1)) *)
(*    m_quadratureCoefficients[k] numerator over WDen                      *)
(*    quadCoeffs[i]               numerator over WDen*MeshDen              *)
(*    m_differentiationMatrix     numerators over DDen                     *)
(*    initialTime, finalTime      whole units of time                      *)
(*    m_times[i], h               ticks, TicksPerUnit ticks per unit       *)
(* Vectors and matrix columns are indexed from 0, as in the code.          *)
(***************************************************************************)
EXTENDS Integers, Sequences, FiniteSets, TLC

\* ------------------------------------------------------------------ bounds
\* Greatest polynomial degree m_degree of the model.
MaxDegree == 3
\* The normalized mesh points are the multiples of 1/MeshDen in [0,1].
MeshDen == 3
\* The Legendre roots are multiples of 1/TauDen in (0,1).
TauDen == 3
\* The base quadrature weights are multiples of 1/WDen in (0,1].
WDen == 3
\* Start and end time of the problem are whole numbers in 0..MaxTime.
MaxTime == 2
\* Greatest number of states of the problem.
MaxStates == 2
\* Coefficients of the sampled polynomials are in 0..MaxCoeff.
MaxCoeff == 1
\* Greatest number of controls and of multipliers of the problem.
MaxControls == 1
MaxMultipliers == 1
\* SimTK::Stage is an ordered enumeration; the model keeps the stages
\* 0..MaxStage, the greatest of them standing for SimTK::Stage::Infinity.
MaxStage == 2
\* The call stack holds at most MaxCallDepth activations.
MaxCallDepth == 7

VARIABLES
    \* --- LegendreGaussRadau: what the constructor fixes
    mesh,                      \* m_solver.getMesh()
    m_degree,
    m_quadratureCoefficients,
    m_differentiationMatrix,
    m_legendreRoots,
    initialTime, finalTime,    \* the problem's time range, behind m_times
    \* --- LegendreGaussRadau: results of the calls
    quadCoeffs,                \* result of createQuadratureCoefficientsImpl
    indices,                   \* result of createMeshIndicesImpl
    lastCall,                  \* the member function that ran last
    writeLog,                  \* the element writes of that call, in order
    \* --- calcDefectsImpl
    numStates,                 \* m_problem.getNumStates()
    states,                    \* state samples, numStates x numGridPoints
    xdot,                      \* derivative samples, numStates x numGridPoints
    input,                     \* which samples the call was given
    defects,                   \* the residuals written, by cell <<row, col>>
    \* --- calcInterpolatingControlsImpl, calcInterpolatingMultipliersImpl
    numControls,               \* m_problem.getNumControls()
    numMultipliers,            \* m_problem.getNumMultipliers()
    interpolateControlMidpoints,     \* m_solver.getInterpolateControlMidpoints()
    interpolateMultiplierMidpoints,  \* m_solver.getInterpolateMultiplierMidpoints()
    controls,                  \* control samples, numControls x numGridPoints
    multipliers,               \* multiplier samples, numMultipliers x numGridPoints
    interpControls,            \* the residual columns written, by column
    interpMultipliers,
    \* --- OpenSim::Output<T>
    outputs,                   \* the Output objects, by identity
    callStack,                 \* the activations of the assignment functions
    status,                    \* "idle", "running" or "stack_overflow"
    call                       \* the call made last and how it ended

lgrConfig == <<mesh, m_degree, m_quadratureCoefficients,
               m_differentiationMatrix, m_legendreRoots,
               initialTime, finalTime>>
lgrVars == <<lgrConfig, quadCoeffs, indices, lastCall, writeLog>>
defectVars == <<numStates, states, xdot, input, defects>>
interpConfig == <<numControls, numMultipliers, interpolateControlMidpoints,
                  interpolateMultiplierMidpoints, controls, multipliers>>
interpVars == <<interpConfig, interpControls, interpMultipliers>>
outputVars == <<outputs, callStack, status, call>>
vars == <<lgrVars, defectVars, interpVars, outputVars>>

\* A result that no call has produced yet.
Unset == <<>>

\* ------------------------------------------------------------ small helpers
RECURSIVE SumTo(_, _)
\* f[0] + ... + f[n-1]
SumTo(f, n) == IF n = 0 THEN 0 ELSE SumTo(f, n - 1) + f[n - 1]

\* casadi::Slice(start, stop) applied to a vector: elements start..stop-1.
Slice(v, start, stop) == [i \in 0..(stop - start - 1) |-> v[start + i]]

\* casadi DM::zeros(1, n) and DM(n, 1): n entries, all zero.
Zeros(n) == [i \in 0..(n - 1) |-> 0]

RECURSIVE ApplyWrites(_, _, _)
\* The vector after the first n writes of log; a write is
\* [idx, val, add]: v(idx) += val when add, v(idx) = val otherwise.
\* A write outside the vector leaves it as it is (and is out of bounds).
ApplyWrites(v, log, n) ==
    IF n = 0 THEN v
    ELSE LET u == ApplyWrites(v, log, n - 1)
             w == log[n]
         IN  IF w.idx \in DOMAIN u
             THEN [u EXCEPT ![w.idx] = IF w.add THEN @ + w.val ELSE w.val]
             ELSE u

\* ---------------------------------------------------- the fixed geometry
m_numMeshPoints == Cardinality(DOMAIN mesh)
m_numMeshIntervals == m_numMeshPoints - 1
m_numGridPoints == m_numMeshIntervals * m_degree + 1

\* Fraction (over TauDen) of local node j of an interval: 0 is the left
\* mesh point, m_degree the right one, the Legendre roots lie between.
Tau(j) == IF j = 0 THEN 0
          ELSE IF j = m_degree THEN TauDen
          ELSE m_legendreRoots[j - 1]

TicksPerUnit == MeshDen * TauDen

\* Normalized grid point igrid, in ticks.
Grid(igrid) ==
    LET imesh == IF igrid = m_numGridPoints - 1 THEN m_numMeshIntervals - 1
                 ELSE igrid \div m_degree
        j == igrid - imesh * m_degree
    IN  mesh[imesh] * TauDen + Tau(j) * (mesh[imesh + 1] - mesh[imesh])

\* m_times: the grid in absolute problem time, in ticks.
m_times == [igrid \in 0..(m_numGridPoints - 1) |->
               initialTime * TicksPerUnit
               + (finalTime - initialTime) * Grid(igrid)]

\* ------------------------------------------------ the inputs of the model
\* Strictly increasing meshes from 0 to 1.
Meshes ==
    UNION {{f \in [0..n -> 0..MeshDen] :
               /\ f[0] = 0
               /\ f[n] = MeshDen
               /\ \A i \in 0..(n - 1) : f[i] < f[i + 1]} : n \in 1..MeshDen}

\* Ordered m_degree-1 fractions in (0,1).
RootTables(d) ==
    {r \in [0..(d - 2) -> 1..(TauDen - 1)] :
        \A k \in 0..(d - 3) : r[k] < r[k + 1]}

WeightTables(d) == [0..(d - 1) -> 1..WDen]

\* --------------------------------------- createQuadratureCoefficientsImpl
\* Lines 29-31: the duration of each mesh interval of the solver's mesh.
MeshIntervalsNoSubtract ==
    Slice(mesh, 1, m_numMeshPoints)
MeshIntervals ==
    LET hi == Slice(mesh, 1, m_numMeshPoints)
        lo == Slice(mesh, 0, m_numMeshPoints - 1)
    IN  [i \in DOMAIN hi |-> hi[i] - lo[i]]

\* Line 40: the grid index a weight is added to.
QuadTargetOffByOne(imesh, d) == imesh * m_degree + d
QuadTarget(imesh, d) ==
    LET igrid == imesh * m_degree
    IN  igrid + d + 1

\* Lines 37-42: the writes of the double loop, in loop order.
QuadWritesFirstInterval ==
    LET w == m_quadratureCoefficients
        meshIntervals == MeshIntervals
    IN  [p \in 1..(m_numMeshIntervals * m_degree) |->
            LET imesh == (p - 1) \div m_degree
                d == (p - 1) % m_degree
            IN  [idx |-> QuadTarget(imesh, d),
                 val |-> w[d] * meshIntervals[0],
                 add |-> TRUE]]
QuadWrites ==
    LET w == m_quadratureCoefficients
        meshIntervals == MeshIntervals
    IN  [p \in 1..(m_numMeshIntervals * m_degree) |->
            LET imesh == (p - 1) \div m_degree
                d == (p - 1) % m_degree
            IN  [idx |-> QuadTarget(imesh, d),
                 val |-> w[d] * meshIntervals[imesh],
                 add |-> TRUE]]

createQuadratureCoefficientsImpl ==
    /\ quadCoeffs' = ApplyWrites(Zeros(m_numGridPoints), QuadWrites,
                                 Len(QuadWrites))
    /\ writeLog' = QuadWrites
    /\ lastCall' = "createQuadratureCoefficientsImpl"
    /\ UNCHANGED <<lgrConfig, indices, defectVars, interpVars, outputVars>>

\* -------------------------------------------------- createMeshIndicesImpl
\* Lines 48-51: one write per mesh interval, then the last grid point.
MeshIndexWritesNoLast ==
    [p \in 1..m_numMeshIntervals |->
        [idx |-> (p - 1) * m_degree, val |-> 1, add |-> FALSE]]
MeshIndexWrites ==
    [p \in 1..(m_numMeshIntervals + 1) |->
        IF p <= m_numMeshIntervals
        THEN [idx |-> (p - 1) * m_degree, val |-> 1, add |-> FALSE]
        ELSE [idx |-> m_numGridPoints - 1, val |-> 1, add |-> FALSE]]

createMeshIndicesImpl ==
    /\ indices' = ApplyWrites(Zeros(m_numGridPoints), MeshIndexWrites,
                              Len(MeshIndexWrites))
    /\ writeLog' = MeshIndexWrites
    /\ lastCall' = "createMeshIndicesImpl"
    /\ UNCHANGED <<lgrConfig, quadCoeffs, defectVars, interpVars, outputVars>>

\* ------------------------------------------------------------- matrices
\* A matrix is a function of the row with functions of the column as values.

\* M(Slice(), Slice(start, stop)): all rows, columns start..stop-1.
ColSlice(M, start, stop) ==
    [r \in DOMAIN M |-> [c \in 0..(stop - start - 1) |-> M[r][start + c]]]

RECURSIVE DotTo(_, _, _, _, _)
\* A[r][0]*B[0][c] + ... + A[r][n-1]*B[n-1][c]
DotTo(A, B, r, c, n) ==
    IF n = 0 THEN 0 ELSE DotTo(A, B, r, c, n - 1) + A[r][n - 1] * B[n - 1][c]

\* MX::mtimes(A, B)
MTimes(A, B) ==
    [r \in DOMAIN A |-> [c \in DOMAIN B[0] |->
        DotTo(A, B, r, c, Cardinality(DOMAIN B))]]

RECURSIVE Factorial(_)
Factorial(n) == IF n <= 1 THEN 1 ELSE n * Factorial(n - 1)
\* Denominator of the entries of m_differentiationMatrix: every fraction
\* 1/Tau(j) and 1/2 is a multiple of 1/DDen.
DDen == Factorial(TauDen)

RECURSIVE Power(_, _)
Power(b, e) == IF e = 0 THEN 1 ELSE b * Power(b, e - 1)

\* ------------------------------------------------------- calcDefectsImpl
\* Lines 61-62: the duration of mesh interval imesh, from m_times (ticks).
DefectHToFirstNode(imesh) ==
    LET igrid == imesh * m_degree
    IN  m_times[igrid + 1] - m_times[igrid]
DefectH(imesh) ==
    LET igrid == imesh * m_degree
    IN  m_times[igrid + m_degree] - m_times[igrid]

\* The argument x: x[imesh] holds the state samples at the m_degree+1 local
\* grid points of interval imesh.
StateBlocks(st) ==
    [imesh \in 0..(m_numMeshIntervals - 1) |->
        ColSlice(st, imesh * m_degree, imesh * m_degree + m_degree + 1)]

\* Lines 64-65: the derivative samples of interval imesh.
XdotOfInterval(xd, imesh) ==
    LET igrid == imesh * m_degree
    IN  ColSlice(xd, igrid + 1, igrid + m_degree + 1)

\* Line 68: h * xdot_i - mtimes(x_i, m_differentiationMatrix), over DDen.
Residual(x, xd, imesh) ==
    LET h == DefectH(imesh)
        x_i == ColSlice(x[imesh], 0, m_degree + 1)
        xdot_i == XdotOfInterval(xd, imesh)
        xD == MTimes(x_i, m_differentiationMatrix)
    IN  [r \in DOMAIN xd |-> [c \in 0..(m_degree - 1) |->
            h * xdot_i[r][c] * DDen - xD[r][c]]]

\* Lines 60-72: the cells of defects written, in loop order; the slice
\* assignment of line 70 writes rows d*NS..(d+1)*NS-1 of column imesh.
DefectWritesTransposed(x, xd) ==
    LET NS == numStates
        residual == [imesh \in 0..(m_numMeshIntervals - 1) |->
                        Residual(x, xd, imesh)]
    IN  [p \in 1..(m_numMeshIntervals * m_degree * NS) |->
            LET imesh == (p - 1) \div (m_degree * NS)
                d == ((p - 1) \div NS) % m_degree
                s == (p - 1) % NS
            IN  [row |-> s * m_degree + d,
                 col |-> imesh,
                 val |-> residual[imesh][s][d]]]
DefectWrites(x, xd) ==
    LET NS == numStates
        residual == [imesh \in 0..(m_numMeshIntervals - 1) |->
                        Residual(x, xd, imesh)]
    IN  [p \in 1..(m_numMeshIntervals * m_degree * NS) |->
            LET imesh == (p - 1) \div (m_degree * NS)
                d == ((p - 1) \div NS) % m_degree
                s == (p - 1) % NS
            IN  [row |-> d * NS + s,
                 col |-> imesh,
                 val |-> residual[imesh][s][d]]]

RECURSIVE CellsAfter(_, _)
\* The cells the first n writes of a log have written, each with the value
\* written last.
CellsAfter(log, n) ==
    IF n = 0 THEN Unset
    ELSE (<<log[n].row, log[n].col>> :> log[n].val) @@ CellsAfter(log, n - 1)
CellsWritten(log) == CellsAfter(log, Len(log))

\* The sample matrices the model calls calcDefectsImpl with.  The residual
\* is linear in the samples and takes each state row on its own, so the
\* matrices with one non-zero column (row r of it holding r+1) stand for
\* every input; the polynomial trajectories
\* x(t) = s + b*t + c*t^2 of state s (t in ticks) come with their exact
\* derivative b + 2*c*t.
ImpulseMatrix(rows, cols, c0) ==
    [r \in 0..(rows - 1) |-> [c \in 0..(cols - 1) |->
        IF c = c0 THEN r + 1 ELSE 0]]
UnitMatrix(rows, cols, r0, c0) ==
    [r \in 0..(rows - 1) |-> [c \in 0..(cols - 1) |->
        IF r = r0 /\ c = c0 THEN 1 ELSE 0]]
ZeroMatrix(rows, cols) ==
    [r \in 0..(rows - 1) |-> [c \in 0..(cols - 1) |-> 0]]
PolyStates(b, c) ==
    [s \in 0..(numStates - 1) |-> [g \in 0..(m_numGridPoints - 1) |->
        s + b * m_times[g] + c * m_times[g] * m_times[g]]]
PolyXdot(b, c) ==
    [s \in 0..(numStates - 1) |-> [g \in 0..(m_numGridPoints - 1) |->
        b + 2 * c * m_times[g]]]
PolyDegree(b, c) == IF c # 0 THEN 2 ELSE IF b # 0 THEN 1 ELSE 0

\* The differentiation matrices (numerators over DDen) the model is
\* constructed with, (m_degree+1) x m_degree each:
\*   the difference quotient from the left mesh point to each node,
\*   the Radau matrix of degree 2 (nodes 0, 1/3, 1),
\*   a matrix with pairwise different entries.
DiffQuotient ==
    [j \in 0..m_degree |-> [k \in 0..(m_degree - 1) |->
        IF j = 0 THEN 0 - (DDen * TauDen) \div Tau(k + 1)
        ELSE IF j = k + 1 THEN (DDen * TauDen) \div Tau(k + 1)
        ELSE 0]]
Radau2 ==
    LET t == <<<<-4, 4>>, <<3, -9>>, <<1, 5>>>>
    IN  [j \in 0..2 |-> [k \in 0..1 |-> (DDen \div 2) * t[j + 1][k + 1]]]
Distinct ==
    [j \in 0..m_degree |-> [k \in 0..(m_degree - 1) |->
        1 + j + (m_degree + 1) * k]]
DiffMatrices ==
    {DiffQuotient, Distinct}
    \cup (IF m_degree = 2 /\ 3 * Tau(1) = TauDen THEN {Radau2} ELSE {})

\* The samples one call is given.  The samples with one non-zero column
\* come with the matrix of pairwise different entries, which tells the
\* entries of m_differentiationMatrix apart; the polynomial trajectories
\* come with the matrices that differentiate.
UnitArguments ==
    /\ m_differentiationMatrix = Distinct
    /\ \/ \E g \in 0..(m_numGridPoints - 1) :
             /\ states = ZeroMatrix(numStates, m_numGridPoints)
             /\ xdot = ImpulseMatrix(numStates, m_numGridPoints, g)
             /\ input = [kind |-> "unitXdot", deg |-> 0]
       \/ \E g \in 0..(m_numGridPoints - 1) :
             /\ states = ImpulseMatrix(numStates, m_numGridPoints, g)
             /\ xdot = ZeroMatrix(numStates, m_numGridPoints)
             /\ input = [kind |-> "unitState", deg |-> 0]
PolynomialArguments ==
    /\ m_differentiationMatrix \in DiffMatrices \ {Distinct}
    /\ \E b \in 0..MaxCoeff, c \in 0..MaxCoeff :
          /\ states = PolyStates(b, c)
          /\ xdot = PolyXdot(b, c)
          /\ input = [kind |-> "polynomial", deg |-> PolyDegree(b, c)]
DefectArguments == UnitArguments \/ PolynomialArguments

calcDefectsImpl ==
    /\ writeLog' = DefectWrites(StateBlocks(states), xdot)
    /\ defects' = CellsWritten(writeLog')
    /\ lastCall' = "calcDefectsImpl"
    /\ UNCHANGED <<lgrConfig, quadCoeffs, indices,
                   numStates, states, xdot, input, interpVars, outputVars>>

\* ------------------------------------------- calcInterpolatingVariables
\* Lines 77-86: the columns of interpVariables written, in loop order, each
\* with the whole column (numerators over TauDen) as its value and the
\* column of variables read as x_t (line 82) as "actual".
InterpColumnPerGridPoint(imesh, d) == imesh * m_degree + d
InterpColumn(imesh, d) == imesh * (m_degree - 1) + d

InterpLineFromRight(x_i, x_ip1, d) ==
    [r \in DOMAIN x_i |->
        m_legendreRoots[d] * (x_i[r] - x_ip1[r]) + TauDen * x_ip1[r]]
\* Line 84: m_legendreRoots[d] * (x_ip1 - x_i) + x_i
InterpLine(x_i, x_ip1, d) ==
    [r \in DOMAIN x_i |->
        m_legendreRoots[d] * (x_ip1[r] - x_i[r]) + TauDen * x_i[r]]

\* variables(Slice(), col)
Column(M, col) == [r \in DOMAIN M |-> M[r][col]]

calcInterpolatingVariables(variables) ==
    [p \in 1..(m_numMeshIntervals * (m_degree - 1)) |->
        LET imesh == (p - 1) \div (m_degree - 1)
            d == (p - 1) % (m_degree - 1)
            igrid == imesh * m_degree
            x_i == Column(variables, igrid)
            x_ip1 == Column(variables, igrid + m_degree)
            x_t == Column(variables, igrid + d + 1)
            line == InterpLine(x_i, x_ip1, d)
        IN  [col |-> InterpColumn(imesh, d),
             actual |-> igrid + d + 1,
             val |-> [r \in DOMAIN variables |-> TauDen * x_t[r] - line[r]]]]

\* The output matrix after the column writes of log.
ColumnsWritten(out, log) ==
    LET cols == {log[p].col : p \in DOMAIN log}
        Last(col) ==
            LET ps == {p \in DOMAIN log : log[p].col = col}
            IN  CHOOSE p \in ps : \A q \in ps : q <= p
    IN  [col \in cols \cup DOMAIN out |->
            IF col \in cols THEN log[Last(col)].val ELSE out[col]]

\* Lines 91-92 and 99-100: the condition under which residuals are made.
ControlGateFlagOnly ==
    interpolateControlMidpoints
ControlGate ==
    numControls # 0 /\ interpolateControlMidpoints
MultiplierGate ==
    numMultipliers # 0 /\ interpolateMultiplierMidpoints

calcInterpolatingControlsImpl ==
    /\ writeLog' = IF ControlGate THEN calcInterpolatingVariables(controls)
                   ELSE <<>>
    /\ interpControls' = ColumnsWritten(interpControls, writeLog')
    /\ lastCall' = "calcInterpolatingControlsImpl"
    /\ UNCHANGED <<lgrConfig, quadCoeffs, indices, defectVars,
                   interpConfig, interpMultipliers, outputVars>>

calcInterpolatingMultipliersImpl ==
    /\ writeLog' = IF MultiplierGate
                   THEN calcInterpolatingVariables(multipliers)
                   ELSE <<>>
    /\ interpMultipliers' = ColumnsWritten(interpMultipliers, writeLog')
    /\ lastCall' = "calcInterpolatingMultipliersImpl"
    /\ UNCHANGED <<lgrConfig, quadCoeffs, indices, defectVars,
                   interpConfig, interpControls, outputVars>>

\* The samples the model calls the two functions with: the unit matrices
\* (the residual is linear in the samples) and samples that alternate
\* between 0 and 1 at the mesh points, with a + (local index) in between.
AlternatingSamples(rows, a) ==
    [r \in 0..(rows - 1) |-> [g \in 0..(m_numGridPoints - 1) |->
        IF g % m_degree = 0 THEN (g \div m_degree) % 2
        ELSE a + (g % m_degree)]]
InterpArguments ==
    \/ \E r \in 0..(MaxControls - 1), g \in 0..(m_numGridPoints - 1) :
          /\ controls = UnitMatrix(numControls, m_numGridPoints, r, g)
          /\ multipliers = UnitMatrix(numMultipliers, m_numGridPoints,
                                      r, m_numGridPoints - 1 - g)
    \/ \E a \in 0..MaxCoeff :
          /\ controls = AlternatingSamples(numControls, a)
          /\ multipliers = AlternatingSamples(numMultipliers, a + 1)

\* ======================================================= OpenSim::Output<T>
\* The Output objects of the model and the value types T they are made for.
Objects == {"a", "b"}
Types == {"double", "Vec3"}
StageInfinity == MaxStage
\* The stages a SimTK::State can be realized to: all below Infinity.
SystemStages == 0..(MaxStage - 1)

NoChannels == <<>>
\* Channel(output, name)
Channel(output, name) == [_output |-> output, _name |-> name]
\* _channels[name] = Channel(this, name)
WithChannel(channels, this, name) ==
    [n \in DOMAIN channels \cup {name} |->
        IF n = name THEN Channel(this, name) ELSE channels[n]]

\* Values of type T are tuples that start with their kind.
\* What _outputFcn(_owner.get(), state, channel) evaluates to:
FcnValue(fcn, owner, stage, channel) ==
    <<"value", fcn, owner, stage, channel>>
NaN == <<"NaN">>
Uninitialized == <<"uninitialized">>
\* Nothing returned (yet, or because the call threw).
Nothing == <<"nothing">>
\* The output function bound to Output o by its component.
FcnOf(o) == IF o = "a" THEN "fcn_a" ELSE "fcn_b"

\* Output(): lines 76 and 138; _result is not initialized.
DefaultOutput(T) ==
    [T |-> T, name |-> "", dependsOnStage |-> StageInfinity,
     _isList |-> FALSE, _outputFcn |-> "nullptr", _owner |-> "nullptr",
     _channels |-> NoChannels, _result |-> Uninitialized]

\* Output(name, outputFunction, dependsOnStage, isList), lines 145-158, owned
\* by a component that binds its own member function.
ConstructedOutput(T, o, dependsOnStage, isList) ==
    [T |-> T, name |-> o, dependsOnStage |-> dependsOnStage,
     _isList |-> isList, _outputFcn |-> FcnOf(o), _owner |-> "component",
     _channels |-> IF ~isList THEN WithChannel(NoChannels, o, "one")
                   ELSE NoChannels,
     _result |-> Uninitialized]

\* --------------------------------------------------------------- getValue
\* Lines 218-231 for Output o and a state realized to stage: what is thrown,
\* what is returned, whether _outputFcn was invoked.
GetValueStageCheckFirst(o, stage) ==
    LET this == outputs[o]
    IN  IF stage < this.dependsOnStage
        THEN [thrown |-> "StageTooLow", returned |-> Nothing,
              invoked |-> FALSE]
        ELSE IF this._isList
        THEN [thrown |-> "Exception", returned |-> Nothing, invoked |-> FALSE]
        ELSE IF this._outputFcn = "nullptr"
        THEN [thrown |-> "bad_function_call", returned |-> Nothing,
              invoked |-> FALSE]
        ELSE [thrown |-> "none",
              returned |-> FcnValue(this._outputFcn, this._owner, stage, ""),
              invoked |-> TRUE]
GetValueOutcome(o, stage) ==
    LET this == outputs[o]
    IN  IF this._isList
        THEN [thrown |-> "Exception", returned |-> Nothing, invoked |-> FALSE]
        ELSE IF stage < this.dependsOnStage
        THEN [thrown |-> "StageTooLow", returned |-> Nothing,
              invoked |-> FALSE]
        ELSE IF this._outputFcn = "nullptr"
        THEN [thrown |-> "bad_function_call", returned |-> Nothing,
              invoked |-> FALSE]
        ELSE [thrown |-> "none",
              returned |-> FcnValue(this._outputFcn, this._owner, stage, ""),
              invoked |-> TRUE]

getValue(o, stage) ==
    /\ status = "idle"
    /\ LET r == GetValueOutcome(o, stage)
       IN  /\ outputs' = [outputs EXCEPT ![o]._result =
                             IF r.thrown = "none" THEN r.returned ELSE NaN]
           /\ call' = [fn |-> "getValue", self |-> o, stage |-> stage,
                       thrown |-> r.thrown, returned |-> r.returned,
                       invoked |-> r.invoked]
    /\ UNCHANGED <<callStack, status, lgrVars, defectVars, interpVars>>

\* ------------------------------------------------- the copy assignment
Frame(fn, self, source) ==
    [fn |-> fn, self |-> self, source |-> source, pc |-> "enter"]
Top == callStack[Len(callStack)]
Running == status = "running" /\ callStack # <<>>

\* A call made by the top activation: it waits, the callee is entered; a
\* stack that is full cannot take the callee.
CallFrom(frame) ==
    IF Len(callStack) < MaxCallDepth
    THEN /\ callStack' = Append([callStack EXCEPT ![Len(callStack)].pc = "wait"],
                                frame)
         /\ status' = "running"
    ELSE /\ status' = "stack_overflow"
         /\ callStack' = callStack

\* The top activation returns to its caller, or to the program.
ReturnFromTop ==
    /\ callStack' = SubSeq(callStack, 1, Len(callStack) - 1)
    /\ status' = IF Len(callStack) = 1 THEN "idle" ELSE "running"
    /\ call' = IF Len(callStack) = 1
               THEN [call EXCEPT !.returned = <<"this">>] ELSE call

\* The program calls one of the three assignment functions on a with
\* source b.  Output<T>::operator= takes a source of the same T only.
BeginCall(fn, a, b) ==
    /\ status = "idle"
    /\ callStack' = <<Frame(fn, a, b)>>
    /\ status' = "running"
    /\ call' = [fn |-> fn, self |-> a, stage |-> 0, thrown |-> "none",
                returned |-> Nothing, invoked |-> FALSE]
    /\ UNCHANGED <<outputs, lgrVars, defectVars, interpVars>>

CallOutputAssign ==
    \E a \in DOMAIN outputs, b \in DOMAIN outputs :
        /\ outputs[a].T = outputs[b].T
        /\ BeginCall("Output::operator=", a, b)
CallAbstractAssign ==
    \E a \in DOMAIN outputs, b \in DOMAIN outputs :
        BeginCall("AbstractOutput::operator=", a, b)
CallCompatibleAssign ==
    \E a \in DOMAIN outputs, b \in DOMAIN outputs :
        BeginCall("compatibleAssign", a, b)

\* Lines 171-173: the self test, then the call of the base operator.
OutputAssignEnter ==
    /\ Running
    /\ Top.fn = "Output::operator="
    /\ Top.pc = "enter"
    /\ IF Top.source = Top.self
       THEN ReturnFromTop
       ELSE /\ CallFrom(Frame("AbstractOutput::operator=", Top.self,
                              Top.source))
            /\ call' = call
    /\ UNCHANGED <<outputs, lgrVars, defectVars, interpVars>>

\* Lines 100-101: compatibleAssign(o), a virtual call.
AbstractAssignEnter ==
    /\ Running
    /\ Top.fn = "AbstractOutput::operator="
    /\ Top.pc = "enter"
    /\ CallFrom(Frame("compatibleAssign", Top.self, Top.source))
    /\ UNCHANGED <<outputs, call, lgrVars, defectVars, interpVars>>

\* isA(o): o is an Output of the same T.
isA(self, o) == outputs[o].T = outputs[self].T

\* Lines 189-193: the type test, then *this = downcast(o).
CompatibleAssignEnter ==
    /\ Running
    /\ Top.fn = "compatibleAssign"
    /\ Top.pc = "enter"
    /\ IF ~isA(Top.self, Top.source)
       THEN /\ callStack' = <<>>
            /\ status' = "idle"
            /\ call' = [call EXCEPT !.thrown = "IncompatibleValues"]
       ELSE /\ CallFrom(Frame("Output::operator=", Top.self, Top.source))
            /\ call' = call
    /\ UNCHANGED <<outputs, lgrVars, defectVars, interpVars>>

\* Lines 174-178: what Output::operator= does once the base operator is back.
CopyFrom(self, source) ==
    [outputs EXCEPT
        ![self]._outputFcn = outputs[source]._outputFcn,
        ![self]._channels =
            [n \in DOMAIN outputs[source]._channels |->
                [outputs[source]._channels[n] EXCEPT !._output = self]]]

\* The callee of the top activation has returned: the activation runs to
\* its end (lines 174-179, line 101, line 194) and returns.
Resume ==
    /\ Running
    /\ Top.pc = "wait"
    /\ outputs' = IF Top.fn = "Output::operator="
                  THEN CopyFrom(Top.self, Top.source)
                  ELSE outputs
    /\ ReturnFromTop
    /\ UNCHANGED <<lgrVars, defectVars, interpVars>>

\* ------------------------------------- construction, channels and copies
\* The Outputs that exist are the domain of outputs.
ChannelNames == {"one", "two"}

\* What one call that is not an assignment leaves in call.
Called(fn, o, thrown) ==
    [fn |-> fn, self |-> o, stage |-> 0, thrown |-> thrown,
     returned |-> Nothing, invoked |-> FALSE]

\* Output<T> o; or Output<T> o(name, fcn, stage, isList); lines 138, 145-158.
Construct(o, T, isList, convenience) ==
    /\ status = "idle"
    /\ o \notin DOMAIN outputs
    /\ outputs' = (o :> IF convenience THEN ConstructedOutput(T, o, 0, isList)
                        ELSE DefaultOutput(T)) @@ outputs
    /\ call' = Called("Output", o, "none")
    /\ UNCHANGED <<callStack, status, lgrVars, defectVars, interpVars>>

\* ~Output(), line 182.
Destroy(o) ==
    /\ status = "idle"
    /\ o \in DOMAIN outputs
    /\ outputs' = [x \in DOMAIN outputs \ {o} |-> outputs[x]]
    /\ call' = Called("~Output", o, "none")
    /\ UNCHANGED <<callStack, status, lgrVars, defectVars, interpVars>>

\* Lines 196-199.
clearChannels(o) ==
    /\ status = "idle"
    /\ o \in DOMAIN outputs
    /\ IF ~outputs[o]._isList
       THEN /\ outputs' = outputs
            /\ call' = Called("clearChannels", o, "Exception")
       ELSE /\ outputs' = [outputs EXCEPT ![o]._channels = NoChannels]
            /\ call' = Called("clearChannels", o, "none")
    /\ UNCHANGED <<callStack, status, lgrVars, defectVars, interpVars>>

\* Lines 201-204.
addChannel(o, channelName) ==
    /\ status = "idle"
    /\ o \in DOMAIN outputs
    /\ IF ~outputs[o]._isList
       THEN /\ outputs' = outputs
            /\ call' = Called("addChannel", o, "Exception")
       ELSE /\ outputs' = [outputs EXCEPT ![o]._channels =
                              WithChannel(@, o, channelName)]
            /\ call' = Called("addChannel", o, "none")
    /\ UNCHANGED <<callStack, status, lgrVars, defectVars, interpVars>>

\* A copy of a SimTK::ReferencePtr: ReferencePtr is not part of this
\* repository; its copy either keeps the target or is null.
ReferencePtrCopies == {"target", "nullptr"}
ReferencePtrCopy(p, how) == IF how = "target" THEN p ELSE "nullptr"

\* Lines 162-163: the base and the members as the initializer list copies
\* them; _result is not in the list.
CopyConstructedNoReset(source, this, how) ==
    LET src == outputs[source]
    IN  [T |-> src.T, name |-> src.name,
         dependsOnStage |-> src.dependsOnStage, _isList |-> src._isList,
         _outputFcn |-> src._outputFcn,
         _owner |-> ReferencePtrCopy(src._owner, how),
         _channels |->
             [n \in DOMAIN src._channels |->
                 [src._channels[n] EXCEPT
                     !._output = ReferencePtrCopy(@, how)]],
         _result |-> Uninitialized]
\* Lines 162-167: then every channel's _output is reset to this.
CopyConstructed(source, this, how) ==
    LET copied == CopyConstructedNoReset(source, this, how)
    IN  [copied EXCEPT !._channels =
            [n \in DOMAIN copied._channels |->
                [copied._channels[n] EXCEPT !._output = this]]]

\* Output<T> o(source); also what clone() runs (line 250).
CopyConstruct(o, source) ==
    /\ status = "idle"
    /\ o \notin DOMAIN outputs
    /\ source \in DOMAIN outputs
    /\ \E how \in ReferencePtrCopies :
          outputs' = (o :> CopyConstructed(source, o, how)) @@ outputs
    /\ call' = Called("Output(const Output&)", o, "none")
    /\ UNCHANGED <<callStack, status, lgrVars, defectVars, interpVars>>

OutputNotUsed ==
    /\ outputs = Unset
    /\ callStack = <<>>
    /\ status = "idle"
    /\ call = Unset

\* ------------------------------------------------------------ construction
\* The transcription as its constructor leaves it.
LgrConstructed ==
    /\ mesh \in Meshes
    /\ m_degree \in 1..MaxDegree
    /\ m_legendreRoots \in RootTables(m_degree)
TimeRange ==
    /\ initialTime \in 0..(MaxTime - 1)
    /\ finalTime \in (initialTime + 1)..MaxTime
InterpNotUsed ==
    /\ numControls = 0
    /\ numMultipliers = 0
    /\ interpolateControlMidpoints = FALSE
    /\ interpolateMultiplierMidpoints = FALSE
    /\ controls = Unset
    /\ multipliers = Unset
    /\ interpControls = Unset
    /\ interpMultipliers = Unset

LgrNoResults ==
    /\ quadCoeffs = Unset
    /\ indices = Unset
    /\ lastCall = "none"
    /\ writeLog = <<>>

DefectsNotUsed ==
    /\ numStates = 0
    /\ states = Unset
    /\ xdot = Unset
    /\ input = Unset
    /\ defects = Unset

InitQuadrature ==
    /\ LgrConstructed
    /\ TimeRange
    /\ m_quadratureCoefficients \in WeightTables(m_degree)
    /\ m_differentiationMatrix = Unset
    /\ LgrNoResults
    /\ DefectsNotUsed
    /\ InterpNotUsed
    /\ OutputNotUsed

NextQuadrature ==
    \/ createQuadratureCoefficientsImpl
    \/ createMeshIndicesImpl

SpecQuadrature == InitQuadrature /\ [][NextQuadrature]_vars

InitDefects ==
    /\ LgrConstructed
    /\ TimeRange
    /\ m_quadratureCoefficients = Unset
    /\ LgrNoResults
    /\ numStates \in 1..MaxStates
    /\ DefectArguments
    /\ defects = Unset
    /\ InterpNotUsed
    /\ OutputNotUsed

NextDefects == calcDefectsImpl

SpecDefects == InitDefects /\ [][NextDefects]_vars

InitInterp ==
    /\ LgrConstructed
    /\ initialTime = 0
    /\ finalTime = 1
    /\ m_quadratureCoefficients = Unset
    /\ m_differentiationMatrix = Unset
    /\ LgrNoResults
    /\ DefectsNotUsed
    /\ numControls \in 0..MaxControls
    /\ numMultipliers \in 0..MaxMultipliers
    /\ interpolateControlMidpoints \in BOOLEAN
    /\ interpolateMultiplierMidpoints \in BOOLEAN
    /\ InterpArguments
    /\ interpControls = Unset
    /\ interpMultipliers = Unset
    /\ OutputNotUsed

NextInterp ==
    \/ calcInterpolatingControlsImpl
    \/ calcInterpolatingMultipliersImpl

SpecInterp == InitInterp /\ [][NextInterp]_vars

\* Two Output objects, each default constructed or constructed with a
\* name, an output function, a stage and the list flag.
OutputsConstructed ==
    outputs \in
        [Objects ->
            UNION {{DefaultOutput(T)} : T \in Types}
            \cup UNION {{ConstructedOutput(T, o, st, l) :
                            T \in Types, st \in 0..MaxStage, l \in BOOLEAN} :
                        o \in Objects}]
    /\ \A o \in Objects : outputs[o].name \in {"", o}

InitOutput ==
    /\ mesh = Unset
    /\ m_degree = 0
    /\ m_legendreRoots = Unset
    /\ initialTime = 0
    /\ finalTime = 1
    /\ m_quadratureCoefficients = Unset
    /\ m_differentiationMatrix = Unset
    /\ LgrNoResults
    /\ DefectsNotUsed
    /\ InterpNotUsed
    /\ OutputsConstructed
    /\ callStack = <<>>
    /\ status = "idle"
    /\ call = [fn |-> "none", self |-> "none", stage |-> 0,
               thrown |-> "none", returned |-> Nothing, invoked |-> FALSE]

NextOutput ==
    \/ \E o \in Objects, stage \in SystemStages : getValue(o, stage)
    \/ CallOutputAssign
    \/ CallAbstractAssign
    \/ CallCompatibleAssign
    \/ OutputAssignEnter
    \/ AbstractAssignEnter
    \/ CompatibleAssignEnter
    \/ Resume

SpecOutput == InitOutput /\ [][NextOutput]_vars

\* No Output exists yet; the program constructs, copies, assigns and
\* destroys Outputs and edits their channels.
InitChannels ==
    /\ mesh = Unset
    /\ m_degree = 0
    /\ m_legendreRoots = Unset
    /\ initialTime = 0
    /\ finalTime = 1
    /\ m_quadratureCoefficients = Unset
    /\ m_differentiationMatrix = Unset
    /\ LgrNoResults
    /\ DefectsNotUsed
    /\ InterpNotUsed
    /\ outputs = Unset
    /\ callStack = <<>>
    /\ status = "idle"
    /\ call = Called("none", "none", "none")

NextChannels ==
    \/ \E o \in Objects, T \in Types, isList \in BOOLEAN,
          convenience \in BOOLEAN : Construct(o, T, isList, convenience)
    \/ \E o \in Objects : Destroy(o)
    \/ \E o \in Objects : clearChannels(o)
    \/ \E o \in Objects, channelName \in ChannelNames :
          addChannel(o, channelName)
    \/ \E o \in Objects, source \in Objects : CopyConstruct(o, source)
    \/ CallOutputAssign
    \/ CallAbstractAssign
    \/ CallCompatibleAssign
    \/ OutputAssignEnter
    \/ AbstractAssignEnter
    \/ CompatibleAssignEnter
    \/ Resume

SpecChannels == InitChannels /\ [][NextChannels]_vars

\* ================================================================ claims
QuadRan == lastCall = "createQuadratureCoefficientsImpl"
IndicesRan == lastCall = "createMeshIndicesImpl"
MeshBoundaries == {n * m_degree : n \in 0..m_numMeshIntervals}

\* C1: the vector createMeshIndicesImpl returns has numGridPoints entries,
\* is 1 exactly at the indices 0, d, 2d, ..., N*d and 0 at every other
\* index, and so holds exactly N+1 ones.
C1_MeshIndicator ==
    IndicesRan =>
        /\ DOMAIN indices = 0..(m_numMeshIntervals * m_degree)
        /\ \A i \in DOMAIN indices :
              indices[i] = IF i \in MeshBoundaries THEN 1 ELSE 0
        /\ Cardinality({i \in DOMAIN indices : indices[i] = 1})
              = m_numMeshIntervals + 1
\* Two intervals of degree 3: ones at {0,3,6} of 7 entries.
C1_Witness ==
    /\ IndicesRan
    /\ m_degree = 3
    /\ m_numMeshIntervals = 2
    /\ {i \in DOMAIN indices : indices[i] = 1} = {0, 3, 6}
    /\ DOMAIN indices = 0..6

\* C2: over the double loop of createQuadratureCoefficientsImpl the pair
\* (imesh, k) writes grid index imesh*d+k+1; every grid index in
\* 1..numGridPoints-1 is written by exactly one pair, no write falls
\* outside that range, index 0 is never written and its coefficient stays 0.
C2_OneIntervalPerGridPoint ==
    QuadRan =>
        /\ Len(writeLog) = m_numMeshIntervals * m_degree
        /\ \A imesh \in 0..(m_numMeshIntervals - 1) :
              \A k \in 0..(m_degree - 1) :
                 writeLog[imesh * m_degree + k + 1].idx
                    = imesh * m_degree + k + 1
        /\ \A p \in DOMAIN writeLog :
              writeLog[p].idx \in 1..(m_numGridPoints - 1)
        /\ \A g \in 1..(m_numGridPoints - 1) :
              Cardinality({p \in DOMAIN writeLog : writeLog[p].idx = g}) = 1
        /\ quadCoeffs[0] = 0
\* A shared mesh boundary (grid index d of a mesh of two intervals or more)
\* has received its weight.
C2_Witness ==
    /\ QuadRan
    /\ m_numMeshIntervals >= 2
    /\ m_degree >= 2
    /\ quadCoeffs[m_degree] > 0
    /\ quadCoeffs[0] = 0

\* C3 as claimed: the coefficient at index imesh*d+k+1 is w[k]*h with h the
\* interval's duration in absolute problem time, the h of calcDefectsImpl.
\* (quadCoeffs over WDen*MeshDen, w over WDen, h over TicksPerUnit.)
C3_Original ==
    QuadRan =>
        \A imesh \in 0..(m_numMeshIntervals - 1) :
           \A k \in 0..(m_degree - 1) :
              quadCoeffs[imesh * m_degree + k + 1] * TicksPerUnit
                 = m_quadratureCoefficients[k] * DefectH(imesh) * MeshDen

\* C3, amended: the coefficient at index imesh*d+k+1 is w[k] times the
\* interval's duration in the solver's normalized mesh; multiplied by
\* (finalTime - initialTime) it is w[k]*h with the h of calcDefectsImpl, so
\* the coefficients carry no time scaling and equal w[k]*h exactly when
\* finalTime - initialTime = 1.
C3_NormalizedDuration ==
    QuadRan =>
        \A imesh \in 0..(m_numMeshIntervals - 1) :
           \A k \in 0..(m_degree - 1) :
              LET c == quadCoeffs[imesh * m_degree + k + 1]
                  wh == m_quadratureCoefficients[k] * DefectH(imesh) * MeshDen
              IN  /\ c = m_quadratureCoefficients[k]
                           * (mesh[imesh + 1] - mesh[imesh])
                  /\ (finalTime - initialTime) * c * TicksPerUnit = wh
                  /\ (c * TicksPerUnit = wh) <=> (finalTime - initialTime = 1)
\* The coefficients of a problem whose duration is not 1.
C3_Witness ==
    /\ QuadRan
    /\ finalTime - initialTime = 2
    /\ m_numMeshIntervals >= 2
    /\ quadCoeffs[1] * TicksPerUnit
          # m_quadratureCoefficients[0] * DefectH(0) * MeshDen

\* C4: the coefficients returned by createQuadratureCoefficientsImpl sum to
\* (the sum of the d base weights) * (mesh[last] - mesh[first]); with base
\* weights that sum to 1 on a mesh from 0 to 1 they sum to 1.
C4_CoefficientSum ==
    QuadRan =>
        LET total == SumTo(quadCoeffs, m_numGridPoints)
            wsum == SumTo(m_quadratureCoefficients, m_degree)
        IN  /\ total = wsum * (mesh[m_numMeshPoints - 1] - mesh[0])
            /\ (wsum = WDen /\ mesh[0] = 0 /\ mesh[m_numMeshPoints - 1] = MeshDen)
                  => total = WDen * MeshDen
\* Weights that sum to 1 over several intervals of unequal length.
C4_Witness ==
    /\ QuadRan
    /\ SumTo(m_quadratureCoefficients, m_degree) = WDen
    /\ m_degree >= 2
    /\ m_numMeshIntervals >= 2
    /\ mesh[1] - mesh[0] # mesh[2] - mesh[1]
    /\ SumTo(quadCoeffs, m_numGridPoints) = WDen * MeshDen

DefectsRan == lastCall = "calcDefectsImpl"

RECURSIVE XTimesD(_, _, _, _)
\* x[imesh](s,0)*D(0,k) + ... + x[imesh](s,n-1)*D(n-1,k)
XTimesD(imesh, s, k, n) ==
    IF n = 0 THEN 0
    ELSE XTimesD(imesh, s, k, n - 1)
         + StateBlocks(states)[imesh][s][n - 1]
           * m_differentiationMatrix[n - 1][k]

\* The mesh intervals whose residuals a call made differ from 0.
IntervalsWithResidual ==
    {cell[2] : cell \in {c \in DOMAIN defects : defects[c] # 0}}

\* C5: calcDefectsImpl writes, for every interval imesh, node k and state s,
\* exactly one entry defects(k*NS+s, imesh)
\*    = h*xdot(s, imesh*d+k+1) - sum_{j=0..d} x[imesh](s,j)*D(j,k),
\* h = m_times(imesh*d+d) - m_times(imesh*d) (the entries over DDen); the
\* cells written are exactly the N columns of NS*d rows, none twice; the
\* derivative at grid index 0 reaches no residual and the derivative at a
\* grid index >= 1 reaches the residuals of exactly one interval.
C5_DefectBlocks ==
    DefectsRan =>
        LET NS == numStates
            N == m_numMeshIntervals
            d == m_degree
        IN  /\ Len(writeLog) = N * d * NS
            /\ DOMAIN defects = (0..(NS * d - 1)) \X (0..(N - 1))
            /\ Cardinality({<<writeLog[p].row, writeLog[p].col>> :
                               p \in DOMAIN writeLog}) = Len(writeLog)
            /\ \A imesh \in 0..(N - 1), k \in 0..(d - 1), s \in 0..(NS - 1) :
                  defects[<<k * NS + s, imesh>>]
                     = (m_times[imesh * d + d] - m_times[imesh * d])
                          * xdot[s][imesh * d + k + 1] * DDen
                       - XTimesD(imesh, s, k, d + 1)
            /\ input.kind = "unitXdot" =>
                  \A s \in 0..(NS - 1), g \in 0..(m_numGridPoints - 1) :
                     xdot[s][g] # 0 =>
                        IntervalsWithResidual
                           = IF g = 0 THEN {} ELSE {(g - 1) \div d}
\* The derivative of the second state at the mesh point shared by the first
\* two intervals: it reaches the last row of the first interval's block.
C5_Witness ==
    /\ DefectsRan
    /\ numStates = 2
    /\ m_degree >= 2
    /\ m_numMeshIntervals >= 2
    /\ input.kind = "unitXdot"
    /\ xdot[1][m_degree] = 2
    /\ defects[<<m_degree * 2 - 1, 0>>] # 0
    /\ IntervalsWithResidual = {0}

\* m_differentiationMatrix differentiates the monomial tau^m exactly at the
\* nodes: sum_j tau_j^m * D(j,k) = m * tau_(k+1)^(m-1) for every k.
\* For m = 0 the column sums are 0, for m = 1 sum_j tau_j*D(j,k) = 1.
DExact(m) ==
    \A k \in 0..(m_degree - 1) :
       LET powers == [r \in {0} |-> [j \in 0..m_degree |-> Power(Tau(j), m)]]
       IN  DotTo(powers, m_differentiationMatrix, 0, k, m_degree + 1)
           = IF m = 0 THEN 0
             ELSE m * Power(Tau(k + 1), m - 1) * TauDen * DDen

\* C6: when the state samples are the values at the grid times of a
\* polynomial of degree n, the derivative samples are the values of its
\* derivative, and m_differentiationMatrix is exact for the monomials up to
\* degree n, every defect residual of every interval is 0; this includes
\* one state, xdot = 1, x(t) = t, mesh = [0,1], degree 2.
C6_CollocationExact ==
    (/\ DefectsRan
     /\ input.kind = "polynomial"
     /\ \A m \in 0..input.deg : DExact(m))
    => \A cell \in DOMAIN defects : defects[cell] = 0
\* One state, xdot = 1, x(t) = t on mesh [0,1] with the Radau matrix of
\* degree 2: both residuals are 0.
C6_Witness ==
    /\ DefectsRan
    /\ numStates = 1
    /\ m_degree = 2
    /\ m_numMeshIntervals = 1
    /\ initialTime = 0
    /\ finalTime = 1
    /\ m_differentiationMatrix = Radau2
    /\ 3 * Tau(1) = TauDen
    /\ DExact(0) /\ DExact(1)
    /\ \A g \in 0..2 : states[0][g] = m_times[g] /\ xdot[0][g] = 1
    /\ DOMAIN defects = {<<0, 0>>, <<1, 0>>}
    /\ \A cell \in DOMAIN defects : defects[cell] = 0
\* A quadratic trajectory over several intervals, residuals all 0.
C6_WitnessQuadratic ==
    /\ DefectsRan
    /\ input.kind = "polynomial"
    /\ input.deg = 2
    /\ DExact(0) /\ DExact(1) /\ DExact(2)
    /\ m_numMeshIntervals >= 2
    /\ finalTime - initialTime = 2
    /\ \A cell \in DOMAIN defects : defects[cell] = 0
\* The exactness of the matrix is needed: a quadratic trajectory leaves a
\* residual under a matrix that is exact for straight lines only.
C6_WitnessInexact ==
    /\ DefectsRan
    /\ input.kind = "polynomial"
    /\ input.deg = 2
    /\ DExact(0) /\ DExact(1) /\ ~DExact(2)
    /\ \E cell \in DOMAIN defects : defects[cell] # 0

ControlsRan == lastCall = "calcInterpolatingControlsImpl"
MultipliersRan == lastCall = "calcInterpolatingMultipliersImpl"

\* C7: calcInterpolatingControlsImpl writes no residual and leaves
\* interpControls as it was whenever interpolateControlMidpoints is false or
\* numControls is 0, and writes residuals (numMeshIntervals*(d-1) columns)
\* when the flag is true and numControls > 0;
\* calcInterpolatingMultipliersImpl does the same with
\* interpolateMultiplierMidpoints and numMultipliers.  Whether a class writes
\* is decided by its own flag and count alone.
C7_InterpolationGating ==
    /\ [](/\ ControlsRan =>
               IF interpolateControlMidpoints /\ numControls > 0
               THEN Len(writeLog) = m_numMeshIntervals * (m_degree - 1)
               ELSE writeLog = <<>>
          /\ MultipliersRan =>
               IF interpolateMultiplierMidpoints /\ numMultipliers > 0
               THEN Len(writeLog) = m_numMeshIntervals * (m_degree - 1)
               ELSE writeLog = <<>>
          /\ ~(interpolateControlMidpoints /\ numControls > 0)
               => interpControls = Unset
          /\ ~(interpolateMultiplierMidpoints /\ numMultipliers > 0)
               => interpMultipliers = Unset)
    /\ [][/\ ~(interpolateControlMidpoints /\ numControls > 0)
               => interpControls' = interpControls
          /\ ~(interpolateMultiplierMidpoints /\ numMultipliers > 0)
               => interpMultipliers' = interpMultipliers]_vars
\* Controls present but their flag off: nothing is written for them, while
\* the multipliers, whose flag is on, have their residuals.
C7_Witness ==
    /\ ControlsRan
    /\ numControls > 0
    /\ ~interpolateControlMidpoints
    /\ writeLog = <<>>
    /\ interpControls = Unset
    /\ interpolateMultiplierMidpoints
    /\ numMultipliers > 0
    /\ interpMultipliers # Unset
\* No controls but their flag on: nothing is written either.
C7_WitnessNoControls ==
    /\ ControlsRan
    /\ numControls = 0
    /\ interpolateControlMidpoints
    /\ m_degree >= 2
    /\ writeLog = <<>>
    /\ interpControls = Unset

\* The samples and the output of the interpolation call that ran last.
InterpRan ==
    \/ ControlsRan /\ ControlGate
    \/ MultipliersRan /\ MultiplierGate
InterpIn == IF ControlsRan THEN controls ELSE multipliers
InterpOut == IF ControlsRan THEN interpControls ELSE interpMultipliers

\* C8: when interpolation is active, calcInterpolatingVariables writes, for
\* every interval imesh and every k in [0,d-2], exactly one output column
\* imesh*(d-1)+k = variables(:, imesh*d+k+1)
\*                 - (x_i + legendreRoot[k]*(x_ip1 - x_i)),
\* x_i = variables(:, imesh*d), x_ip1 = variables(:, imesh*d+d) (entries
\* over TauDen); the columns written are exactly 0..N*(d-1)-1, none twice;
\* no sample at a mesh point is read as 'actual'; for d = 1 nothing is
\* written; where x_i = 0 and x_ip1 = 1 the residual is
\* actual[k] - legendreRoot[k].
C8_InterpolationResiduals ==
    InterpRan =>
        LET N == m_numMeshIntervals
            d == m_degree
            v == InterpIn
            out == InterpOut
        IN  /\ Len(writeLog) = N * (d - 1)
            /\ d = 1 => writeLog = <<>> /\ out = Unset
            /\ DOMAIN out = 0..(N * (d - 1) - 1)
            /\ \A p, q \in DOMAIN writeLog :
                  writeLog[p].col = writeLog[q].col => p = q
            /\ {writeLog[p].actual : p \in DOMAIN writeLog}
                  = (0..(m_numGridPoints - 1)) \ MeshBoundaries
            /\ \A imesh \in 0..(N - 1), k \in 0..(d - 2), r \in DOMAIN v :
                  LET x_i == v[r][imesh * d]
                      x_ip1 == v[r][imesh * d + d]
                      actual == v[r][imesh * d + k + 1]
                      res == out[imesh * (d - 1) + k][r]
                  IN  /\ res = TauDen * actual
                               - (TauDen * x_i
                                  + m_legendreRoots[k] * (x_ip1 - x_i))
                      /\ (x_i = 0 /\ x_ip1 = 1)
                            => res = TauDen * actual - m_legendreRoots[k]
\* Degree 3, two intervals or more, the first one from 0 to 1 with interior
\* samples that are not on the line: residual actual[k] - legendreRoot[k].
C8_Witness ==
    /\ ControlsRan
    /\ ControlGate
    /\ m_degree = 3
    /\ m_numMeshIntervals >= 2
    /\ controls[0][0] = 0
    /\ controls[0][3] = 1
    /\ controls[0][2] = 2
    /\ interpControls[1][0] = TauDen * 2 - m_legendreRoots[1]
    /\ DOMAIN interpControls = 0..(m_numMeshIntervals * 2 - 1)
\* Degree 1 with interpolation active: nothing is written.
C8_WitnessDegreeOne ==
    /\ MultipliersRan
    /\ MultiplierGate
    /\ m_degree = 1
    /\ writeLog = <<>>
    /\ interpMultipliers = Unset

GetValueRan == call.fn = "getValue"

\* C9: getValue(state) returns the value of the bound output function if
\* and only if the Output is not a list output and the state's stage is at
\* or beyond dependsOnStage; otherwise it throws without invoking the output
\* function: Exception for a list output, whatever the stage, StageTooLow
\* for a stage below dependsOnStage.
C9_GetValue ==
    GetValueRan =>
        LET this == outputs[call.self]
            ok == ~this._isList /\ call.stage >= this.dependsOnStage
        IN  /\ (call.returned # Nothing) <=> ok
            /\ ok => /\ call.thrown = "none"
                     /\ call.invoked
                     /\ call.returned = FcnValue(this._outputFcn, this._owner,
                                                 call.stage, "")
                     /\ this._outputFcn # "nullptr"
            /\ ~ok => call.thrown # "none" /\ ~call.invoked
            /\ this._isList => call.thrown = "Exception"
            /\ (~this._isList /\ call.stage < this.dependsOnStage)
                  => call.thrown = "StageTooLow"
\* A list output asked at a stage that is too low: Exception, the output
\* function not invoked.
C9_Witness ==
    /\ GetValueRan
    /\ outputs[call.self]._isList
    /\ call.stage < outputs[call.self].dependsOnStage
    /\ call.thrown = "Exception"
    /\ ~call.invoked
\* A value returned at a stage beyond dependsOnStage.
C9_WitnessValue ==
    /\ GetValueRan
    /\ ~outputs[call.self]._isList
    /\ call.stage > outputs[call.self].dependsOnStage
    /\ call.thrown = "none"
    /\ call.returned = outputs[call.self]._result
    /\ call.returned[2] = FcnOf(call.self)

\* C10: a copy assignment between two distinct Output<T> objects terminates:
\* no activation of the chain Output::operator= -> AbstractOutput::operator=
\* -> compatibleAssign -> Output::operator= is entered again, with the same
\* objects, while it is still active, and the call stack is never exhausted.
C10_AssignmentTerminates ==
    /\ status # "stack_overflow"
    /\ \A i, j \in DOMAIN callStack :
          (/\ i < j
           /\ callStack[i].fn = callStack[j].fn
           /\ callStack[i].self = callStack[j].self
           /\ callStack[i].source = callStack[j].source) => FALSE

\* Every Channel that Output o holds refers back to o and is stored under
\* its own name.
BackPointers(o) ==
    \A n \in DOMAIN outputs[o]._channels :
       /\ outputs[o]._channels[n]._output = o
       /\ outputs[o]._channels[n]._name = n

\* Lines 174-178, were they run for existing Outputs a and b, leave a's
\* channels referring to a and b as it was.
AssignmentBodyKeepsBackPointers ==
    \A a, b \in DOMAIN outputs :
       LET after == CopyFrom(a, b)
       IN  /\ \A n \in DOMAIN after[a]._channels :
                 /\ after[a]._channels[n]._output = a
                 /\ after[a]._channels[n]._name = n
           /\ a # b => after[b] = outputs[b]

\* C11: after any sequence of construction, addChannel, clearChannels, copy
\* construction, destruction and copy assignment (self-assignment included),
\* every Channel in an Output's channel map refers back to the Output that
\* holds it and is stored under its own name; and a step that constructs,
\* copies into or assigns to one Output leaves every other Output, the
\* source of the copy included, exactly as it was.
C11_BackPointers ==
    /\ [](/\ \A o \in DOMAIN outputs : BackPointers(o)
          /\ AssignmentBodyKeepsBackPointers)
    /\ [][\A o \in DOMAIN outputs \cap DOMAIN outputs' :
             o # call'.self => outputs'[o] = outputs[o]]_vars
\* A list Output with two channels has just been copy constructed from: the
\* copy holds both channels, referring to the copy, and the source's
\* channels still refer to the source.
C11_Witness ==
    /\ call.fn = "Output(const Output&)"
    /\ LET o == call.self
           source == outputs[o].name
       IN  /\ source # o
           /\ source \in DOMAIN outputs
           /\ outputs[source].name = source
           /\ DOMAIN outputs[source]._channels = ChannelNames
           /\ DOMAIN outputs[o]._channels = ChannelNames
           /\ BackPointers(o)
           /\ BackPointers(source)
\* A self-assignment through AbstractOutput::operator= has returned and the
\* Output still holds its channels.
C11_WitnessSelfAssignment ==
    /\ status = "idle"
    /\ call.fn = "AbstractOutput::operator="
    /\ call.returned = <<"this">>
    /\ call.self \in DOMAIN outputs
    /\ DOMAIN outputs[call.self]._channels = ChannelNames
    /\ BackPointers(call.self)
\* An assignment between two Outputs with different channels has exhausted
\* the call stack: the target's channels are as they were before the call.
C11_WitnessAssignmentCopiesNothing ==
    /\ status = "stack_overflow"
    /\ Top.self # Top.source
    /\ DOMAIN outputs[Top.self]._channels = {}
    /\ DOMAIN outputs[Top.source]._channels = ChannelNames
    /\ BackPointers(Top.source)

====
